---------------------------- MODULE Spec2Model ----------------------------
(***************************************************************************)
(* A model of lua_to_json.py: the data:extend call-site extractor, the     *)
(* table splitter, the recursive table parser, the scalar parser, the      *)
(* pattern-fallback expression evaluator and the conversion driver.        *)
(*                                                                         *)
(* Text is a sequence of one-character strings.  Positions are Python's    *)
(* 0-based offsets; At(s, p) is s[p].  The evaluator is modelled with no   *)
(* embedded interpreter (LUPA_AVAILABLE = False, self.lua = None), which   *)
(* leaves self.context empty.                                              *)
(***************************************************************************)
EXTENDS Integers, Sequences, FiniteSets, TLC

VARIABLES content, pc, search_pos, start, pos, brace_count,
          table_array_content, idx, current_table, table_start, in_string,
          string_char, escape_next, all_tables, table_at, site, items,
          value_str, value_out, table_str, table_out

vars == <<content, pc, search_pos, start, pos, brace_count,
          table_array_content, idx, current_table, table_start, in_string,
          string_char, escape_next, all_tables, table_at, site, items,
          value_str, value_out, table_str, table_out>>

(***************************************************************************)
(* Characters and Python's str helpers                                     *)
(***************************************************************************)
Digits == {"0", "1", "2", "3", "4", "5", "6", "7", "8", "9"}

LowerLetters == {"a", "b", "c", "d", "e", "f", "g", "h", "i", "j", "k", "l", "m",
                 "n", "o", "p", "q", "r", "s", "t", "u", "v", "w", "x", "y", "z"}

UpperLetters == {"A", "B", "C", "D", "E", "F", "G", "H", "I", "J", "K", "L", "M",
                 "N", "O", "P", "Q", "R", "S", "T", "U", "V", "W", "X", "Y", "Z"}

\* the literal ' \t\n\r' the parser loops test against
SkipChars == {" ", "\t", "\n", "\r"}

\* str.strip() and the regex class \s
SpaceChars == {" ", "\t", "\n", "\r", "\f"}

\* the regex class \w
WordChars == LowerLetters \cup UpperLetters \cup Digits \cup {"_"}

\* [a-zA-Z_] and [a-zA-Z0-9_-] of the key pattern
KeyStartChars == LowerLetters \cup UpperLetters \cup {"_"}

KeyChars == WordChars \cup {"-"}

QuoteChars == {"\"", "'"}

DigitValue(c) ==
    CASE c = "0" -> 0 [] c = "1" -> 1 [] c = "2" -> 2 [] c = "3" -> 3
      [] c = "4" -> 4 [] c = "5" -> 5 [] c = "6" -> 6 [] c = "7" -> 7
      [] c = "8" -> 8 [] c = "9" -> 9

\* s[p] for an offset inside s
At(s, p) == s[p + 1]

\* s[a:b] for 0 <= a
Slice(s, a, b) ==
    LET e == IF b > Len(s) THEN Len(s) ELSE b
    IN  IF e <= a THEN <<>> ELSE SubSeq(s, a + 1, e)

\* s[p:].startswith(t)
StartsWithAt(s, p, t) ==
    /\ p + Len(t) <= Len(s)
    /\ \A i \in 1..Len(t) : s[p + i] = t[i]

\* first offset q >= p with s[q] not in cs, or len(s)
RECURSIVE SkipWhile(_, _, _)
SkipWhile(s, p, cs) ==
    IF p < Len(s) /\ At(s, p) \in cs THEN SkipWhile(s, p + 1, cs) ELSE p

\* first offset q >= p with s[q] = c, or len(s)
RECURSIVE SkipUntil(_, _, _)
SkipUntil(s, p, c) ==
    IF p < Len(s) /\ At(s, p) # c THEN SkipUntil(s, p + 1, c) ELSE p

RECURSIVE LStrip(_)
LStrip(s) ==
    IF s # <<>> /\ Head(s) \in SpaceChars THEN LStrip(Tail(s)) ELSE s

RECURSIVE RStrip(_)
RStrip(s) ==
    IF s # <<>> /\ s[Len(s)] \in SpaceChars
    THEN RStrip(SubSeq(s, 1, Len(s) - 1)) ELSE s

\* str.strip()
Strip(s) == RStrip(LStrip(s))

Contains(s, c) == \E i \in 1..Len(s) : s[i] = c

(***************************************************************************)
(* Values: every Python value the parser can produce is a record with a    *)
(* tag.  A str is its characters, an int its value, a float its sign,      *)
(* decimal mantissa and exponent (mant * 10^exp, mant without trailing     *)
(* zeros; the rounding and the overflow of the binary format are left      *)
(* out), a list its items, a dict its keys in insertion order with the     *)
(* values beside them.  Raised(m) is an exception leaving the function.    *)
(***************************************************************************)
PyNone == [tag |-> "none"]

PyBool(b) == [tag |-> "bool", b |-> b]

PyInt(n) == [tag |-> "int", n |-> n]

\* special is "" for a finite value, else "inf" or "nan"
PyFloat(neg, special, mant, exp) ==
    [tag |-> "float", neg |-> neg, special |-> special, mant |-> mant, exp |-> exp]

PyStr(s) == [tag |-> "str", s |-> s]

PyList(xs) == [tag |-> "list", xs |-> xs]

PyDict(ks, vs) == [tag |-> "dict", ks |-> ks, vs |-> vs]

Raised(m) == [tag |-> "raise", msg |-> m]

\* result[key] = value
DictSet(d, k, v) ==
    IF \E i \in 1..Len(d.ks) : d.ks[i] = k
    THEN LET i == CHOOSE j \in 1..Len(d.ks) : d.ks[j] = k
         IN  PyDict(d.ks, [d.vs EXCEPT ![i] = v])
    ELSE PyDict(Append(d.ks, k), Append(d.vs, v))

(***************************************************************************)
(* int() and float() of a stripped str, as parse_lua_value calls them      *)
(***************************************************************************)
UpperSeq == <<"A", "B", "C", "D", "E", "F", "G", "H", "I", "J", "K", "L", "M",
              "N", "O", "P", "Q", "R", "S", "T", "U", "V", "W", "X", "Y", "Z">>

LowerSeq == <<"a", "b", "c", "d", "e", "f", "g", "h", "i", "j", "k", "l", "m",
              "n", "o", "p", "q", "r", "s", "t", "u", "v", "w", "x", "y", "z">>

LowerChar(c) ==
    IF c \in UpperLetters
    THEN LowerSeq[CHOOSE i \in 1..26 : UpperSeq[i] = c]
    ELSE c

\* str.lower()
Lower(s) == [i \in 1..Len(s) |-> LowerChar(s[i])]

\* end of the run digit (_? digit)* that starts at p, or -1 when s[p] is no digit
RECURSIVE DigitRun(_, _)
DigitRun(s, q) ==
    IF q < Len(s) /\ At(s, q) \in Digits THEN DigitRun(s, q + 1)
    ELSE IF q + 1 < Len(s) /\ At(s, q) = "_" /\ At(s, q + 1) \in Digits
         THEN DigitRun(s, q + 2)
         ELSE q

DigitPartEnd(s, p) ==
    IF p < Len(s) /\ At(s, p) \in Digits THEN DigitRun(s, p + 1) ELSE -1

\* the digits of s[a:b], underscores dropped
DigitsOf(s, a, b) == SelectSeq(Slice(s, a, b), LAMBDA c : c \in Digits)

RECURSIVE DigitsValue(_)
DigitsValue(ds) ==
    IF ds = <<>> THEN 0
    ELSE 10 * DigitsValue(SubSeq(ds, 1, Len(ds) - 1)) + DigitValue(ds[Len(ds)])

SignLen(s) == IF s # <<>> /\ s[1] \in {"+", "-"} THEN 1 ELSE 0

\* int(s): [ok |-> the literal is accepted, n |-> its value]
PyIntParse(s) ==
    LET p == SignLen(s)
        q == DigitPartEnd(s, p)
    IN  IF q = Len(s)
        THEN [ok |-> TRUE,
              n  |-> IF p = 1 /\ s[1] = "-" THEN 0 - DigitsValue(DigitsOf(s, p, q))
                     ELSE DigitsValue(DigitsOf(s, p, q))]
        ELSE [ok |-> FALSE, n |-> 0]

RECURSIVE Normalize(_, _)
Normalize(mant, exp) ==
    IF mant = 0 THEN <<0, 0>>
    ELSE IF mant % 10 = 0 THEN Normalize(mant \div 10, exp + 1)
    ELSE <<mant, exp>>

InfNames == {<<"i", "n", "f">>, <<"i", "n", "f", "i", "n", "i", "t", "y">>}

NanName == <<"n", "a", "n">>

NoFloat == [ok |-> FALSE, v |-> PyNone]

\* the value of a literal with the mantissa digits ds, fracLen of them after the
\* point, and the exponent e
FloatValue(neg, ds, fracLen, e) ==
    LET norm == Normalize(DigitsValue(ds), e - fracLen)
    IN  [ok |-> TRUE, v |-> PyFloat(neg, "", norm[1], norm[2])]

\* the exponent's digits run from ePos to e1, and must end the literal
FloatExponentEnd(s, neg, ds, fracLen, ePos, eNeg, e1) ==
    IF e1 # Len(s) THEN NoFloat
    ELSE IF eNeg THEN FloatValue(neg, ds, fracLen, 0 - DigitsValue(DigitsOf(s, ePos, e1)))
    ELSE FloatValue(neg, ds, fracLen, DigitsValue(DigitsOf(s, ePos, e1)))

\* after the mantissa, which ends at mEnd: an optional exponent, then the end
FloatExponent(s, neg, ds, fracLen, mEnd) ==
    IF mEnd = Len(s) THEN FloatValue(neg, ds, fracLen, 0)
    ELSE IF At(s, mEnd) \notin {"e", "E"} THEN NoFloat
    ELSE IF mEnd + 1 < Len(s) /\ At(s, mEnd + 1) \in {"+", "-"}
    THEN FloatExponentEnd(s, neg, ds, fracLen, mEnd + 2, At(s, mEnd + 1) = "-",
                          DigitPartEnd(s, mEnd + 2))
    ELSE FloatExponentEnd(s, neg, ds, fracLen, mEnd + 1, FALSE, DigitPartEnd(s, mEnd + 1))

\* after the point at offset dot: f1 is the end of the fraction digits, or -1
FloatFraction(s, neg, iDs, dot, f1) ==
    IF f1 # -1
    THEN FloatExponent(s, neg, iDs \o DigitsOf(s, dot + 1, f1),
                       Len(DigitsOf(s, dot + 1, f1)), f1)
    ELSE IF iDs # <<>> THEN FloatExponent(s, neg, iDs, 0, dot + 1)
    ELSE NoFloat

\* the decimal literal from offset p: i1 is the end of the integer digits, or -1
FloatMantissa(s, neg, p, i1) ==
    IF i1 # -1
    THEN IF i1 < Len(s) /\ At(s, i1) = "."
         THEN FloatFraction(s, neg, DigitsOf(s, p, i1), i1, DigitPartEnd(s, i1 + 1))
         ELSE FloatExponent(s, neg, DigitsOf(s, p, i1), 0, i1)
    ELSE IF p < Len(s) /\ At(s, p) = "."
         THEN FloatFraction(s, neg, <<>>, p, DigitPartEnd(s, p + 1))
         ELSE NoFloat

\* the literal after its sign, which ends at p
FloatUnsigned(s, neg, p) ==
    IF Lower(Slice(s, p, Len(s))) \in InfNames
    THEN [ok |-> TRUE, v |-> PyFloat(neg, "inf", 0, 0)]
    ELSE IF Lower(Slice(s, p, Len(s))) = NanName
    THEN [ok |-> TRUE, v |-> PyFloat(neg, "nan", 0, 0)]
    ELSE FloatMantissa(s, neg, p, DigitPartEnd(s, p))

\* float(s): [ok |-> the literal is accepted, v |-> its value]
PyFloatParse(s) == FloatUnsigned(s, SignLen(s) = 1 /\ s[1] = "-", SignLen(s))

(***************************************************************************)
(* LuaEvaluator with self.lua = None: evaluate, _evaluate_fallback,        *)
(* _resolve_variable                                                       *)
(***************************************************************************)
KnownPath == <<"d", "a", "t", "a", "_", "u", "t", "i", "l", ".",
               "m", "o", "d", "_", "p", "r", "e", "f", "i", "x">>

KnownValue == <<"s", "e", "-">>

\* a resolver whose known-constant table is empty
_resolve_nothing(var_path) == PyNone

\* known_values, then self.context (empty without an interpreter)
_resolve_variable(var_path) ==
    IF var_path = KnownPath THEN PyStr(KnownValue) ELSE PyNone

\* first offset q >= p with s[q] in cs, or len(s)
RECURSIVE SkipUntilIn(_, _, _)
SkipUntilIn(s, p, cs) ==
    IF p < Len(s) /\ At(s, p) \notin cs THEN SkipUntilIn(s, p + 1, cs) ELSE p

\* end of the greedy \w+(?:\.\w+)* from p; -1 when s[p] is no word character
RECURSIVE DottedTail(_, _)
DottedTail(s, q) ==
    IF q + 1 < Len(s) /\ At(s, q) = "." /\ At(s, q + 1) \in WordChars
    THEN DottedTail(s, SkipWhile(s, q + 1, WordChars))
    ELSE q

DottedEnd(s, p) ==
    IF p < Len(s) /\ At(s, p) \in WordChars
    THEN DottedTail(s, SkipWhile(s, p, WordChars))
    ELSE -1

\* re.match of (\w+(?:\.\w+)+)\s*\.\.\s*["']([^"']*)["'] at the start of s:
\* [ok, path (group 1), lit (group 2)]
ConcatMatch(s) ==
    LET e1 == DottedEnd(s, 0)
        g1 == Slice(s, 0, e1)
        a  == SkipWhile(s, e1, SpaceChars)
        b  == SkipWhile(s, a + 2, SpaceChars)
        c  == SkipUntilIn(s, b + 1, QuoteChars)
    IN  IF /\ e1 # -1
           /\ Contains(g1, ".")
           /\ StartsWithAt(s, a, <<".", ".">>)
           /\ b < Len(s) /\ At(s, b) \in QuoteChars
           /\ c < Len(s) /\ At(s, c) \in QuoteChars
        THEN [ok |-> TRUE, path |-> g1, lit |-> Slice(s, b + 1, c)]
        ELSE [ok |-> FALSE, path |-> <<>>, lit |-> <<>>]

\* re.match of ^\w+(?:\.\w+)*$ on a stripped expression
IsVariableRef(s) == s # <<>> /\ DottedEnd(s, 0) = Len(s)

_evaluate_fallback(expression) ==
    LET m  == ConcatMatch(expression)
        vv == _resolve_variable(m.path)
    IN  IF m.ok /\ vv # PyNone THEN PyStr(vv.s \o m.lit)
        ELSE IF IsVariableRef(expression) THEN _resolve_variable(expression)
        ELSE PyStr(expression)

evaluate(expression) == _evaluate_fallback(Strip(expression))

(***************************************************************************)
(* parse_lua_value, called with an evaluator                               *)
(***************************************************************************)
TrueText == <<"t", "r", "u", "e">>

FalseText == <<"f", "a", "l", "s", "e">>

NilText == <<"n", "i", "l">>

\* the try block: float() when the text has '.' or 'e'/'E', int() otherwise
NumberOf(v) ==
    IF Contains(v, ".") \/ Contains(Lower(v), "e")
    THEN LET f == PyFloatParse(v) IN [ok |-> f.ok, v |-> f.v]
    ELSE LET i == PyIntParse(v)   IN [ok |-> i.ok, v |-> PyInt(i.n)]

IsQuoted(v) ==
    /\ v # <<>>
    /\ \/ v[1] = "\"" /\ v[Len(v)] = "\""
       \/ v[1] = "'" /\ v[Len(v)] = "'"

\* the evaluator branch and the final return
ValueOrText(v) ==
    IF Contains(v, ".")
    THEN LET result == evaluate(v)
         IN  IF result # PyStr(v) THEN result ELSE PyStr(v)
    ELSE PyStr(v)

parse_lua_value(text) ==
    LET v == Strip(text)
        n == NumberOf(v)
    IN  IF v = TrueText THEN PyBool(TRUE)
        ELSE IF v = FalseText THEN PyBool(FALSE)
        ELSE IF v = NilText THEN PyNone
        ELSE IF n.ok THEN n.v
        ELSE IF IsQuoted(v) THEN PyStr(Slice(v, 1, Len(v) - 1))
        ELSE ValueOrText(v)

(***************************************************************************)
(* parse_lua_table                                                         *)
(***************************************************************************)
\* Python's recursion limit, in nested parse_lua_table calls
MaxDepth == 3

CommaSkipChars == SkipChars \cup {","}

CommentMark == <<"-", "-">>

\* re.match of ([a-zA-Z_][a-zA-Z0-9_-]*)\s*= on s[p:]:
\* [ok, key (group 1), end (the offset after the match)]
KeyMatch(s, p) ==
    LET e == SkipWhile(s, p + 1, KeyChars)
        a == SkipWhile(s, e, SpaceChars)
    IN  IF /\ p < Len(s) /\ At(s, p) \in KeyStartChars
           /\ a < Len(s) /\ At(s, a) = "="
        THEN [ok |-> TRUE, key |-> Slice(s, p, e), end |-> a + 1]
        ELSE [ok |-> FALSE, key |-> <<>>, end |-> p]

\* the shape detection loop: is_array after it
RECURSIVE IsArrayShape(_, _)
IsArrayShape(s, temp_pos) ==
    LET p == SkipWhile(s, temp_pos, SkipChars)
    IN  IF p >= Len(s) THEN TRUE
        ELSE IF StartsWithAt(s, p, CommentMark)
             THEN IsArrayShape(s, SkipUntil(s, p, "\n"))
             ELSE ~KeyMatch(s, p).ok

\* one iteration of the nested-table scan on character c: the scan state after
\* it, with stop set when the loop breaks (after the matching '}')
TableStep(st, c) ==
    IF st.escape_next THEN [st EXCEPT !.escape_next = FALSE]
    ELSE IF c = "\\" /\ st.in_string THEN [st EXCEPT !.escape_next = TRUE]
    ELSE IF c \in QuoteChars /\ ~st.in_string
         THEN [st EXCEPT !.in_string = TRUE, !.string_char = c]
    ELSE IF st.in_string /\ c = st.string_char
         THEN [st EXCEPT !.in_string = FALSE, !.string_char = ""]
    ELSE IF ~st.in_string /\ c = "{" THEN [st EXCEPT !.brace_count = @ + 1]
    ELSE IF ~st.in_string /\ c = "}"
         THEN [st EXCEPT !.brace_count = @ - 1, !.stop = (st.brace_count - 1 = 0)]
    ELSE st

TableScanInit ==
    [brace_count |-> 0, in_string |-> FALSE, string_char |-> "",
     escape_next |-> FALSE, stop |-> FALSE]

\* the scan of a nested table from offset p: the offset where it stops
RECURSIVE TableScanFrom(_, _, _)
TableScanFrom(s, p, st) ==
    IF p >= Len(s) THEN p
    ELSE LET n == TableStep(st, At(s, p))
         IN  IF n.stop THEN p + 1 ELSE TableScanFrom(s, p + 1, n)

\* the scan of the nested table that starts at the '{' at offset p
TableScan(s, p) == TableScanFrom(s, p, TableScanInit)

\* the scan of a quoted string from the offset after its opening quote:
\* the offset of the closing quote, or len(s)
RECURSIVE StringScan(_, _, _, _)
StringScan(s, p, quote, escNext) ==
    IF p >= Len(s) THEN p
    ELSE IF escNext THEN StringScan(s, p + 1, quote, FALSE)
    ELSE IF At(s, p) = "\\" THEN StringScan(s, p + 1, quote, TRUE)
    ELSE IF At(s, p) = quote THEN p
    ELSE StringScan(s, p + 1, quote, FALSE)

\* one iteration of the scalar-run scan on character c: the scan state after it,
\* with stop set when the loop breaks (before c)
ScalarStep(st, c) ==
    IF c \in QuoteChars /\ ~st.in_string
    THEN [st EXCEPT !.in_string = TRUE, !.string_char = c]
    ELSE IF st.in_string /\ c = st.string_char
    THEN [st EXCEPT !.in_string = FALSE, !.string_char = ""]
    ELSE IF st.in_string THEN st
    ELSE CASE c = "{" -> [st EXCEPT !.brace_count = @ + 1]
           [] c = "}" -> IF st.brace_count > 0
                         THEN [st EXCEPT !.brace_count = @ - 1]
                         ELSE [st EXCEPT !.stop = TRUE]
           [] c = "[" -> [st EXCEPT !.bracket_count = @ + 1]
           [] c = "]" -> [st EXCEPT !.bracket_count = @ - 1]
           [] c = "(" -> [st EXCEPT !.paren_count = @ + 1]
           [] c = ")" -> [st EXCEPT !.paren_count = @ - 1]
           [] c = "," -> [st EXCEPT !.stop = (st.brace_count = 0 /\ st.bracket_count = 0
                                              /\ st.paren_count = 0)]
           [] OTHER   -> st

ScalarScanInit ==
    [brace_count |-> 0, bracket_count |-> 0, paren_count |-> 0,
     in_string |-> FALSE, string_char |-> "", stop |-> FALSE]

\* the scan of a scalar run from offset p: the offset where it stops
RECURSIVE ScalarScanFrom(_, _, _)
ScalarScanFrom(s, p, st) ==
    IF p >= Len(s) THEN p
    ELSE LET n == ScalarStep(st, At(s, p))
         IN  IF n.stop THEN p ELSE ScalarScanFrom(s, p + 1, n)

\* the end of a scalar run that starts at p ("ensure pos has advanced")
ScalarEnd(s, p) ==
    LET e == ScalarScanFrom(s, p, ScalarScanInit)
    IN  IF e = p THEN p + 1 ELSE e

\* value_str of a scalar run: stripped, one trailing comma removed
ScalarText(raw) ==
    LET v == Strip(raw)
    IN  IF v # <<>> /\ v[Len(v)] = "," THEN Strip(SubSeq(v, 1, Len(v) - 1)) ELSE v

\* table_str after strip() and the removal of the outer braces
Unbraced(text) ==
    LET t == Strip(text)
    IN  IF t # <<>> /\ t[1] = "{" /\ t[Len(t)] = "}" THEN Slice(t, 1, Len(t) - 1) ELSE t

IndexErrorText == <<"s", "t", "r", "i", "n", "g", " ", "i", "n", "d", "e", "x", " ",
                    "o", "u", "t", " ", "o", "f", " ", "r", "a", "n", "g", "e">>

RecursionErrorText == <<"m", "a", "x", "i", "m", "u", "m", " ", "r", "e", "c", "u", "r",
                        "s", "i", "o", "n", " ", "d", "e", "p", "t", "h", " ",
                        "e", "x", "c", "e", "e", "d", "e", "d">>

RECURSIVE ParseTableAt(_, _)
RECURSIVE ArrayLoop(_, _, _, _)
RECURSIVE DictLoop(_, _, _, _)

\* try: parse_lua_table(value_str) except: value_str.strip()
NestedValue(sub, depth) ==
    LET r == ParseTableAt(sub, depth + 1)
    IN  IF r.tag = "raise" THEN PyStr(Strip(sub)) ELSE r

\* the array branch from offset p, result holding the entries so far
ArrayLoop(s, p0, result, depth) ==
    LET p == SkipWhile(s, p0, SkipChars)
    IN  IF p >= Len(s) THEN PyList(result)
        ELSE IF StartsWithAt(s, p, CommentMark)
        THEN ArrayLoop(s, SkipUntil(s, p, "\n"), result, depth)
        ELSE IF At(s, p) = "{"
        THEN LET e == TableScan(s, p)
             IN  ArrayLoop(s, SkipWhile(s, e, CommaSkipChars),
                           Append(result, NestedValue(Slice(s, p, e), depth)), depth)
        ELSE IF At(s, p) \in QuoteChars
        THEN LET e == StringScan(s, p + 1, At(s, p), FALSE)
             IN  ArrayLoop(s, SkipWhile(s, e + 1, CommaSkipChars),
                           Append(result, PyStr(Slice(s, p + 1, e))), depth)
        ELSE LET e == ScalarEnd(s, p)
                 v == ScalarText(Slice(s, p, e))
             IN  ArrayLoop(s, SkipWhile(s, e, CommaSkipChars),
                           IF v # <<>> THEN Append(result, parse_lua_value(v)) ELSE result,
                           depth)

\* the dictionary branch from offset p, result holding the entries so far
DictLoop(s, p0, result, depth) ==
    LET p  == SkipWhile(s, p0, SkipChars)
        km == KeyMatch(s, p)
        q  == SkipWhile(s, km.end, SkipChars)
    IN  IF p >= Len(s) THEN result
        ELSE IF StartsWithAt(s, p, CommentMark)
        THEN DictLoop(s, SkipUntil(s, p, "\n"), result, depth)
        ELSE IF ~km.ok THEN DictLoop(s, p + 1, result, depth)
        ELSE IF q >= Len(s) THEN Raised(IndexErrorText)
        ELSE IF At(s, q) = "{"
        THEN LET e == TableScan(s, q)
             IN  DictLoop(s, SkipWhile(s, e, CommaSkipChars),
                          DictSet(result, km.key, NestedValue(Slice(s, q, e), depth)), depth)
        ELSE IF At(s, q) \in QuoteChars
        THEN LET e == StringScan(s, q + 1, At(s, q), FALSE)
             IN  DictLoop(s, SkipWhile(s, e + 1, CommaSkipChars),
                          DictSet(result, km.key, PyStr(Slice(s, q + 1, e))), depth)
        ELSE LET e == ScalarEnd(s, q)
             IN  DictLoop(s, SkipWhile(s, e, CommaSkipChars),
                          DictSet(result, km.key, parse_lua_value(ScalarText(Slice(s, q, e)))),
                          depth)

\* parse_lua_table as the depth-th nested call
ParseTableAt(text, depth) ==
    LET s == Unbraced(text)
    IN  IF depth > MaxDepth THEN Raised(RecursionErrorText)
        ELSE IF IsArrayShape(s, 0) /\ Strip(s) # <<>>
        THEN ArrayLoop(s, 0, <<>>, depth)
        ELSE DictLoop(s, 0, PyDict(<<>>, <<>>), depth)

parse_lua_table(text) == ParseTableAt(text, 1)

\* the value_str of every nested call parse_lua_table(value_str, evaluator)
\* that the array branch makes from offset p0 on (lines 388-390)
RECURSIVE ArrayCalls(_, _, _)
ArrayCalls(s, p0, calls) ==
    LET p == SkipWhile(s, p0, SkipChars)
    IN  IF p >= Len(s) THEN calls
        ELSE IF StartsWithAt(s, p, CommentMark)
        THEN ArrayCalls(s, SkipUntil(s, p, "\n"), calls)
        ELSE IF At(s, p) = "{"
        THEN ArrayCalls(s, SkipWhile(s, TableScan(s, p), CommaSkipChars),
                        calls \cup {Slice(s, p, TableScan(s, p))})
        ELSE IF At(s, p) \in QuoteChars
        THEN ArrayCalls(s, SkipWhile(s, StringScan(s, p + 1, At(s, p), FALSE) + 1,
                                     CommaSkipChars), calls)
        ELSE ArrayCalls(s, SkipWhile(s, ScalarEnd(s, p), CommaSkipChars), calls)

\* the same for the dictionary branch (lines 548-552), up to the place where
\* line 512 raises
RECURSIVE DictCalls(_, _, _)
DictCalls(s, p0, calls) ==
    LET p  == SkipWhile(s, p0, SkipChars)
        km == KeyMatch(s, p)
        q  == SkipWhile(s, km.end, SkipChars)
    IN  IF p >= Len(s) THEN calls
        ELSE IF StartsWithAt(s, p, CommentMark)
        THEN DictCalls(s, SkipUntil(s, p, "\n"), calls)
        ELSE IF ~km.ok THEN DictCalls(s, p + 1, calls)
        ELSE IF q >= Len(s) THEN calls
        ELSE IF At(s, q) = "{"
        THEN DictCalls(s, SkipWhile(s, TableScan(s, q), CommaSkipChars),
                       calls \cup {Slice(s, q, TableScan(s, q))})
        ELSE IF At(s, q) \in QuoteChars
        THEN DictCalls(s, SkipWhile(s, StringScan(s, q + 1, At(s, q), FALSE) + 1,
                                    CommaSkipChars), calls)
        ELSE DictCalls(s, SkipWhile(s, ScalarEnd(s, q), CommaSkipChars), calls)

\* the arguments of the nested calls that parse_lua_table(text) makes itself
NestedArgs(text) ==
    IF IsArrayShape(Unbraced(text), 0) /\ Strip(Unbraced(text)) # <<>>
    THEN ArrayCalls(Unbraced(text), 0, {})
    ELSE DictCalls(Unbraced(text), 0, {})

\* the arguments of all calls of parse_lua_table under the depth-th call on
\* text, that call included, down to the recursion limit
RECURSIVE CallInputs(_, _)
CallInputs(text, depth) ==
    IF depth > MaxDepth THEN {}
    ELSE {text} \cup UNION {CallInputs(sub, depth + 1) : sub \in NestedArgs(text)}

(***************************************************************************)
(* extract_tables_from_lua and the loop of convert_lua_to_json that parses *)
(* what it returns, as a state machine.  pc is the place in the code:      *)
(*   "search"  the top of the while True loop, before re.search            *)
(*   "scan"    the loop that looks for the brace closing the call site     *)
(*   "split"   the for loop over table_array_content                       *)
(*   "parse"   the driver's loop over table_strings                        *)
(*   "done"    after the driver's loop                                     *)
(* table_at records, for every entry of all_tables, the call site (counted *)
(* from 1) and the offset in content where its first character was read.   *)
(***************************************************************************)
CallName == <<"d", "a", "t", "a", ":", "e", "x", "t", "e", "n", "d">>

\* re.match of data:extend\s*\(\s*\{ on s[i:]: the offset after the match, or -1
PatternEndAt(s, i) ==
    LET a == SkipWhile(s, i + Len(CallName), SpaceChars)
        b == SkipWhile(s, a + 1, SpaceChars)
    IN  IF /\ StartsWithAt(s, i, CallName)
           /\ a < Len(s) /\ At(s, a) = "("
           /\ b < Len(s) /\ At(s, b) = "{"
        THEN b + 1
        ELSE -1

\* re.search(pattern, content[from:]), in offsets of content
PatternSearch(s, from) ==
    LET hits == {i \in from..(Len(s) - 1) : PatternEndAt(s, i) # -1}
    IN  IF hits = {} THEN [found |-> FALSE, match_start |-> 0, match_end |-> 0]
        ELSE LET i == CHOOSE j \in hits : \A k \in hits : j <= k
             IN  [found |-> TRUE, match_start |-> i, match_end |-> PatternEndAt(s, i)]

\* brace_count after the scan loop has read character c
ScanCount(count, c) ==
    IF c = "{" THEN count + 1
    ELSE IF c = "}" THEN count - 1
    ELSE count

\* table_array_content = content[start+1:pos-1]
BlockText(s, st, p) == Slice(s, st + 1, p - 1)

\* items.append({"_raw": table_str, "_error": str(e)})
RawKey == <<"_", "r", "a", "w">>

ErrorKey == <<"_", "e", "r", "r", "o", "r">>

Diagnostic(raw, msg) == PyDict(<<RawKey, ErrorKey>>, <<PyStr(raw), PyStr(msg)>>)

\* what the driver appends for one table string
DriverEntry(text) ==
    LET parsed == parse_lua_table(text)
    IN  IF parsed.tag = "raise" THEN Diagnostic(text, parsed.msg) ELSE parsed

\* lines 228-239: the next call site, or the end of the extraction
SearchCallSite ==
    /\ pc = "search"
    /\ LET match == PatternSearch(content, search_pos)
       IN  IF ~match.found
           THEN /\ pc' = "parse"
                /\ UNCHANGED <<start, pos, brace_count, site>>
           ELSE /\ pc' = "scan"
                /\ start' = match.match_end - 1
                /\ pos' = match.match_end
                /\ brace_count' = 1
                /\ site' = site + 1
    /\ UNCHANGED <<content, search_pos, table_array_content, idx, current_table,
                   table_start, in_string, string_char, escape_next, all_tables,
                   table_at, items, value_str, value_out, table_str, table_out>>

\* lines 241-246: one iteration of the scan for the closing brace
ScanStep ==
    /\ pc = "scan"
    /\ pos < Len(content) /\ brace_count > 0
    /\ brace_count' = ScanCount(brace_count, At(content, pos))
    /\ pos' = pos + 1
    /\ UNCHANGED <<content, pc, search_pos, start, table_array_content, idx,
                   current_table, table_start, in_string, string_char, escape_next,
                   all_tables, table_at, site, items,
                   value_str, value_out, table_str, table_out>>

\* lines 248-256: the block's text, and the splitter's state reset
ScanEnd ==
    /\ pc = "scan"
    /\ ~(pos < Len(content) /\ brace_count > 0)
    /\ table_array_content' = BlockText(content, start, pos)
    /\ current_table' = <<>>
    /\ brace_count' = 0
    /\ in_string' = FALSE
    /\ string_char' = ""
    /\ escape_next' = FALSE
    /\ idx' = 0
    /\ pc' = "split"
    /\ UNCHANGED <<content, search_pos, start, pos, table_start, all_tables,
                   table_at, site, items, value_str, value_out, table_str, table_out>>

\* a splitter that puts each new table in front of the earlier ones
EmitFirst(tables, table) == <<table>> \o tables

\* all_tables.append(''.join(current_table))
Emit(tables, table) == Append(tables, table)

\* a splitter that never restarts current_table
OpenTableKeep(table, count, c) == Append(table, c)

\* current_table after a '{' read at brace_count = count
OpenTable(table, count, c) == IF count = 0 THEN <<c>> ELSE Append(table, c)

\* lines 258-295: one iteration of the for loop over table_array_content
SplitStep ==
    /\ pc = "split"
    /\ idx < Len(table_array_content)
    /\ LET char == At(table_array_content, idx)
       IN  IF escape_next
           THEN /\ current_table' = Append(current_table, char)
                /\ escape_next' = FALSE
                /\ UNCHANGED <<in_string, string_char, brace_count, all_tables,
                               table_at, table_start>>
           ELSE IF char = "\\" /\ in_string
           THEN /\ escape_next' = TRUE
                /\ current_table' = Append(current_table, char)
                /\ UNCHANGED <<in_string, string_char, brace_count, all_tables,
                               table_at, table_start>>
           ELSE IF char \in QuoteChars /\ ~in_string
           THEN /\ in_string' = TRUE
                /\ string_char' = char
                /\ current_table' = Append(current_table, char)
                /\ UNCHANGED <<escape_next, brace_count, all_tables, table_at,
                               table_start>>
           ELSE IF in_string /\ char = string_char
           THEN /\ in_string' = FALSE
                /\ string_char' = ""
                /\ current_table' = Append(current_table, char)
                /\ UNCHANGED <<escape_next, brace_count, all_tables, table_at,
                               table_start>>
           ELSE IF in_string
           THEN /\ current_table' = Append(current_table, char)
                /\ UNCHANGED <<in_string, string_char, escape_next, brace_count,
                               all_tables, table_at, table_start>>
           ELSE IF char = "{"
           THEN /\ current_table' = OpenTable(current_table, brace_count, char)
                /\ table_start' = IF brace_count = 0 THEN start + 1 + idx ELSE table_start
                /\ brace_count' = brace_count + 1
                /\ UNCHANGED <<in_string, string_char, escape_next, all_tables, table_at>>
           ELSE IF char = "}"
           THEN /\ brace_count' = brace_count - 1
                /\ IF brace_count - 1 = 0
                   THEN /\ all_tables' = Emit(all_tables, Append(current_table, char))
                        /\ table_at' = Append(table_at, [site |-> site, off |-> table_start])
                        /\ current_table' = <<>>
                   ELSE /\ current_table' = Append(current_table, char)
                        /\ UNCHANGED <<all_tables, table_at>>
                /\ UNCHANGED <<in_string, string_char, escape_next, table_start>>
           ELSE /\ current_table' = IF brace_count > 0 THEN Append(current_table, char)
                                    ELSE current_table
                /\ UNCHANGED <<in_string, string_char, escape_next, brace_count,
                               all_tables, table_at, table_start>>
    /\ idx' = idx + 1
    /\ UNCHANGED <<content, pc, search_pos, start, pos, table_array_content, site,
                   items, value_str, value_out, table_str, table_out>>

\* an extractor that resumes the search just after the block's opening brace
SplitEndInside ==
    /\ pc = "split"
    /\ idx >= Len(table_array_content)
    /\ search_pos' = start + 1
    /\ pc' = "search"
    /\ UNCHANGED <<content, start, pos, brace_count, table_array_content, idx,
                   current_table, table_start, in_string, string_char, escape_next,
                   all_tables, table_at, site, items,
                   value_str, value_out, table_str, table_out>>

\* lines 297-298: search_pos = pos, back to the top of the while loop
SplitEnd ==
    /\ pc = "split"
    /\ idx >= Len(table_array_content)
    /\ search_pos' = pos
    /\ pc' = "search"
    /\ UNCHANGED <<content, start, pos, brace_count, table_array_content, idx,
                   current_table, table_start, in_string, string_char, escape_next,
                   all_tables, table_at, site, items,
                   value_str, value_out, table_str, table_out>>

\* a driver that keeps the bare text of a table whose parse raises
DriverAppendText(done, text) ==
    IF parse_lua_table(text).tag = "raise" THEN Append(done, PyStr(Strip(text)))
    ELSE Append(done, parse_lua_table(text))

\* items after the driver's loop body has run on table string text
DriverAppend(done, text) == Append(done, DriverEntry(text))

\* lines 670-678: one iteration of the driver's loop
ParseNext ==
    /\ pc = "parse"
    /\ Len(items) < Len(all_tables)
    /\ items' = DriverAppend(items, all_tables[Len(items) + 1])
    /\ UNCHANGED <<content, pc, search_pos, start, pos, brace_count,
                   table_array_content, idx, current_table, table_start, in_string,
                   string_char, escape_next, all_tables, table_at, site,
                   value_str, value_out, table_str, table_out>>

\* the driver's loop ends
ParseEnd ==
    /\ pc = "parse"
    /\ Len(items) = Len(all_tables)
    /\ pc' = "done"
    /\ UNCHANGED <<content, search_pos, start, pos, brace_count,
                   table_array_content, idx, current_table, table_start, in_string,
                   string_char, escape_next, all_tables, table_at, site, items,
                   value_str, value_out, table_str, table_out>>

(***************************************************************************)
(* The inputs.  A file is the call-site head followed by at most MaxPieces *)
(* pieces of text.                                                         *)
(***************************************************************************)
MaxPieces == 4

CallHead == CallName \o <<"(", "{">>

TableA == <<"{", "a", "}">>

TableRaising == <<"{", "a", "=", "}">>

Pieces == {CallHead, TableA, TableRaising, <<"{">>, <<"}">>, <<"\"">>, <<"\\">>,
           <<")">>}

\* the texts made of at most n pieces
RECURSIVE TextsOf(_, _)
TextsOf(pieces, n) ==
    IF n = 0 THEN {<<>>}
    ELSE LET shorter == TextsOf(pieces, n - 1)
         IN  shorter \cup {t \o q : t \in shorter, q \in pieces}

\* data:extend({{a}{a=}}data:extend({{a}}: two call sites, three tables
TwoSitesFile ==
    CallHead \o TableA \o TableRaising \o <<"}">> \o CallHead \o TableA \o <<"}">>

\* data:extend({"{"}{{a}}}: a closing brace and a table at depth 0 after a
\* quoted opening brace
StrayBraceFile ==
    CallHead \o <<"\"", "{", "\"", "}", "{">> \o TableA \o <<"}", "}">>

\* data:extend({{a}{{a}}): the second table's opening brace is never closed
UnterminatedFile ==
    CallHead \o TableA \o <<"{">> \o TableA \o <<"}", ")">>

SampleFiles == {TwoSitesFile, StrayBraceFile, UnterminatedFile}

\* the files of at most n pieces after the call-site head, and the sample files
Files(n) == {CallHead \o t : t \in TextsOf(Pieces, n)} \cup SampleFiles

Pending == [tag |-> "pending"]

Init ==
    /\ content \in Files(MaxPieces)
    /\ pc = "search"
    /\ search_pos = 0
    /\ start = 0
    /\ pos = 0
    /\ brace_count = 0
    /\ table_array_content = <<>>
    /\ idx = 0
    /\ current_table = <<>>
    /\ table_start = 0
    /\ in_string = FALSE
    /\ string_char = ""
    /\ escape_next = FALSE
    /\ all_tables = <<>>
    /\ table_at = <<>>
    /\ site = 0
    /\ items = <<>>
    /\ value_str = <<>>
    /\ value_out = Pending
    /\ table_str = <<>>
    /\ table_out = Pending

Next ==
    \/ SearchCallSite
    \/ ScanStep
    \/ ScanEnd
    \/ SplitStep
    \/ SplitEnd
    \/ ParseNext
    \/ ParseEnd

Spec == Init /\ [][Next]_vars

MaxLivePieces == 3

\* Init with the files of at most MaxLivePieces pieces
InitLive ==
    /\ content \in Files(MaxLivePieces)
    /\ pc = "search"
    /\ search_pos = 0
    /\ start = 0
    /\ pos = 0
    /\ brace_count = 0
    /\ table_array_content = <<>>
    /\ idx = 0
    /\ current_table = <<>>
    /\ table_start = 0
    /\ in_string = FALSE
    /\ string_char = ""
    /\ escape_next = FALSE
    /\ all_tables = <<>>
    /\ table_at = <<>>
    /\ site = 0
    /\ items = <<>>
    /\ value_str = <<>>
    /\ value_out = Pending
    /\ table_str = <<>>
    /\ table_out = Pending

\* the statements of extract_tables_from_lua
Extract ==
    \/ SearchCallSite
    \/ ScanStep
    \/ ScanEnd
    \/ SplitStep
    \/ SplitEnd

\* the interpreter runs the extractor's next statement whenever there is one
SpecLive == InitLive /\ [][Next]_vars /\ WF_vars(Extract)

(***************************************************************************)
(* parse_lua_value on its own: a token is drawn, the function is applied   *)
(***************************************************************************)
MaxNumLen == 5

MaxExprPieces == 5

NumPieces == {<<"0">>, <<"1">>, <<"-">>, <<"+">>, <<".">>, <<"e">>, <<"_">>}

UnknownPath == <<"f", "o", "o", ".", "b", "a", "r">>

ConcatOp == <<" ", ".", ".", " ">>

Igniter == <<"i", "g", "n", "i", "t", "e", "r">>

ExprPieces == {KnownPath, UnknownPath, ConcatOp, Igniter, <<"\"">>, <<"'">>,
               <<"x">>}

WordTokens == {<<"i", "n", "f">>, <<"n", "a", "n">>,
               <<"I", "n", "f", "i", "n", "i", "t", "y">>}

\* data_util.mod_prefix .. "a" .. "b"
ChainedConcat ==
    KnownPath \o ConcatOp \o <<"\"", "a", "\"">> \o ConcatOp \o <<"\"", "b", "\"">>

\* the tokens of at most n number pieces or at most m expression pieces
Tokens(n, m) ==
    TextsOf(NumPieces, n) \cup TextsOf(ExprPieces, m) \cup WordTokens
        \cup {ChainedConcat}

InitValue ==
    /\ value_str \in Tokens(MaxNumLen, MaxExprPieces)
    /\ value_out = Pending
    /\ content = <<>>
    /\ pc = "value"
    /\ search_pos = 0
    /\ start = 0
    /\ pos = 0
    /\ brace_count = 0
    /\ table_array_content = <<>>
    /\ idx = 0
    /\ current_table = <<>>
    /\ table_start = 0
    /\ in_string = FALSE
    /\ string_char = ""
    /\ escape_next = FALSE
    /\ all_tables = <<>>
    /\ table_at = <<>>
    /\ site = 0
    /\ items = <<>>
    /\ table_str = <<>>
    /\ table_out = Pending

\* one call parse_lua_value(value_str, evaluator)
ParseValue ==
    /\ pc = "value"
    /\ value_out = Pending
    /\ value_out' = parse_lua_value(value_str)
    /\ UNCHANGED <<content, pc, search_pos, start, pos, brace_count,
                   table_array_content, idx, current_table, table_start, in_string,
                   string_char, escape_next, all_tables, table_at, site, items,
                   value_str, table_str, table_out>>

SpecValue == InitValue /\ [][ParseValue]_vars

(***************************************************************************)
(* parse_lua_table on its own: a table literal is drawn, the function is   *)
(* applied                                                                 *)
(***************************************************************************)
MaxTablePieces == 5

TablePieces == {<<"a">>, <<"=">>, <<"1">>, <<",">>, <<"{">>, <<"}">>, <<"\"">>,
                CommentMark, <<"\n">>}

\* the table literals with at most n pieces between their braces
TableLiterals(n) == {<<"{">> \o t \o <<"}">> : t \in TextsOf(TablePieces, n)}

BlockOpen == <<"-", "-", "[", "[">>

BlockClose == <<"]", "]">>

\* what stands inside a block comment, and what follows it
CommentBodies == {<<"a", "=", "1">>, <<"\n", "a", "=", "1">>, <<"\n", "1", "\n">>}

CommentRests == {<<"1">>, <<"a", "=", "1">>}

\* { --[[ body ]] rest }
BlockCommentTable(body, rest) ==
    <<"{">> \o BlockOpen \o body \o BlockClose \o rest \o <<"}">>

BlockCommentTables ==
    {BlockCommentTable(body, rest) : body \in CommentBodies, rest \in CommentRests}

\* {1,["k"]=v,1}: a bracketed key between two positional entries
BracketKeyTable(v) ==
    <<"{", "1", ",", "[", "\"", "k", "\"", "]", "=">> \o v \o <<",", "1", "}">>

BracketValues == {<<"2">>, <<"t", "r", "u", "e">>, <<"\"", "x", "\"">>}

BracketKeyTables == {BracketKeyTable(v) : v \in BracketValues}

\* {x"\",{"}: the scalar scan ends the string at the second quote, the
\* nested-table scan at the third
ScanDisagreeTable == <<"{", "x", "\"", "\\", "\"", ",", "{", "\"", "}">>

SampleTables == BlockCommentTables \cup BracketKeyTables \cup {ScanDisagreeTable}

InitTable ==
    /\ table_str \in TableLiterals(MaxTablePieces) \cup SampleTables
    /\ table_out = Pending
    /\ content = <<>>
    /\ pc = "table"
    /\ search_pos = 0
    /\ start = 0
    /\ pos = 0
    /\ brace_count = 0
    /\ table_array_content = <<>>
    /\ idx = 0
    /\ current_table = <<>>
    /\ table_start = 0
    /\ in_string = FALSE
    /\ string_char = ""
    /\ escape_next = FALSE
    /\ all_tables = <<>>
    /\ table_at = <<>>
    /\ site = 0
    /\ items = <<>>
    /\ value_str = <<>>
    /\ value_out = Pending

\* one call parse_lua_table(table_str, evaluator)
ParseTable ==
    /\ pc = "table"
    /\ table_out = Pending
    /\ table_out' = parse_lua_table(table_str)
    /\ UNCHANGED <<content, pc, search_pos, start, pos, brace_count,
                   table_array_content, idx, current_table, table_start, in_string,
                   string_char, escape_next, all_tables, table_at, site, items,
                   value_str, value_out, table_str>>

SpecTable == InitTable /\ [][ParseTable]_vars

(***************************************************************************)
(* What the claims speak of, read off the text alone                       *)
(***************************************************************************)
\* the brace depth after each character of t, braces inside quoted strings
\* not counted, a backslash inside a string taking the next character with it:
\* [depths, quote (the open string's quote character, "" outside a string)]
RECURSIVE BraceDepths(_, _, _, _, _, _)
BraceDepths(t, i, depth, quote, esc, acc) ==
    IF i > Len(t) THEN [depths |-> acc, quote |-> quote]
    ELSE IF quote # ""
    THEN IF esc THEN BraceDepths(t, i + 1, depth, quote, FALSE, Append(acc, depth))
         ELSE IF t[i] = "\\"
         THEN BraceDepths(t, i + 1, depth, quote, TRUE, Append(acc, depth))
         ELSE IF t[i] = quote
         THEN BraceDepths(t, i + 1, depth, "", FALSE, Append(acc, depth))
         ELSE BraceDepths(t, i + 1, depth, quote, FALSE, Append(acc, depth))
    ELSE IF t[i] \in QuoteChars
    THEN BraceDepths(t, i + 1, depth, t[i], FALSE, Append(acc, depth))
    ELSE IF t[i] = "{"
    THEN BraceDepths(t, i + 1, depth + 1, "", FALSE, Append(acc, depth + 1))
    ELSE IF t[i] = "}"
    THEN BraceDepths(t, i + 1, depth - 1, "", FALSE, Append(acc, depth - 1))
    ELSE BraceDepths(t, i + 1, depth, "", FALSE, Append(acc, depth))

DepthsOf(t) == BraceDepths(t, 1, 0, "", FALSE, <<>>)

\* t is one table literal: it opens with a brace, that brace is closed by the
\* last character and by no earlier one, and no string is left open
WellFormedTable(t) ==
    /\ Len(t) >= 2
    /\ t[1] = "{"
    /\ t[Len(t)] = "}"
    /\ LET d == DepthsOf(t)
       IN  /\ d.quote = ""
           /\ d.depths[Len(t)] = 0
           /\ \A i \in 1..(Len(t) - 1) : d.depths[i] >= 1

\* the number of characters from the opening brace at offset st to the first
\* closing brace outside any string that brings the depth back to 0, that
\* brace included; 0 when there is none
QuotedBlockLength(s, st) ==
    LET d == DepthsOf(Slice(s, st, Len(s))).depths
        closed == {i \in 1..Len(d) : d[i] = 0}
    IN  IF closed = {} THEN 0 ELSE CHOOSE i \in closed : \A j \in closed : i <= j

\* n copies of text t
RECURSIVE Repeat(_, _)
Repeat(t, n) == IF n = 0 THEN <<>> ELSE t \o Repeat(t, n - 1)

\* concatenation of a sequence of texts
RECURSIVE Flatten(_)
Flatten(ts) == IF ts = <<>> THEN <<>> ELSE Head(ts) \o Flatten(Tail(ts))

IsDiagnostic(v) == v.tag = "dict" /\ v.ks = <<RawKey, ErrorKey>>

ClosedTables == {TableA, TableRaising}

\* the sequences of at most n closed tables
RECURSIVE TableRuns(_)
TableRuns(n) ==
    IF n = 0 THEN {<<>>}
    ELSE TableRuns(n - 1) \cup {Append(r, t) : r \in TableRuns(n - 1), t \in ClosedTables}

\* the text of one closed call site holding the tables of run
SiteText(run) == CallHead \o Flatten(run) \o <<"}">>

\* the files of one or two closed call sites of at most n tables each, each
\* file with the tables it holds
ClosedFiles(n) ==
    {[text |-> SiteText(r1), tables |-> r1] : r1 \in TableRuns(n)}
        \cup {[text |-> SiteText(r1) \o SiteText(r2), tables |-> r1 \o r2] :
                  r1 \in TableRuns(n), r2 \in TableRuns(n)}

(***************************************************************************)
(* C1                                                                      *)
(***************************************************************************)
\* C1: the driver's output has one element per table the extractor found,
\* in one flat sequence ordered as the tables lie in the file: every found
\* table is the text of the file at its recorded offset, tables do not
\* overlap, a later element comes from a later offset and never from an
\* earlier call site, and element k is what the driver makes of table k.
\* A file of one or two closed call sites gives the tables of the first
\* site followed by those of the second.
C1_FlatSourceOrder ==
    pc = "done" =>
        /\ Len(items) = Len(all_tables)
        /\ Len(table_at) = Len(all_tables)
        /\ \A k \in 1..Len(all_tables) :
               /\ all_tables[k] =
                      Slice(content, table_at[k].off, table_at[k].off + Len(all_tables[k]))
               /\ items[k] = DriverEntry(all_tables[k])
        /\ \A j, k \in 1..Len(all_tables) :
               j < k => /\ table_at[j].site <= table_at[k].site
                        /\ table_at[j].off + Len(all_tables[j]) <= table_at[k].off
        /\ \A f \in ClosedFiles(MaxPieces - 1) : content = f.text => all_tables = f.tables

\* two call sites, the first with two tables, all three in the output
C1_Witness ==
    /\ pc = "done"
    /\ content = TwoSitesFile
    /\ Len(items) = 3
    /\ table_at[2].site = 1
    /\ table_at[3].site = 2

(***************************************************************************)
(* C2                                                                      *)
(***************************************************************************)
\* C2: at every moment of the driver's loop and after it, element i of the
\* output is the Diagnostic {_raw: substring i, _error: message} when
\* parse_lua_table raises on substring i and is the parse's result otherwise;
\* after the loop the output is as long as the list of substrings.
C2_DiagnosticPerFailure ==
    pc \in {"parse", "done"} =>
        /\ Len(items) <= Len(all_tables)
        /\ pc = "done" => Len(items) = Len(all_tables)
        /\ \A i \in 1..Len(items) :
               IF parse_lua_table(all_tables[i]).tag = "raise"
               THEN items[i] = PyDict(<<RawKey, ErrorKey>>,
                                      <<PyStr(all_tables[i]),
                                        PyStr(parse_lua_table(all_tables[i]).msg)>>)
               ELSE items[i] = parse_lua_table(all_tables[i])

\* a raising table between two tables that parse
C2_Witness ==
    /\ pc = "done"
    /\ Len(items) = 3
    /\ parse_lua_table(all_tables[2]).tag = "raise"
    /\ IsDiagnostic(items[2])
    /\ items[1] = parse_lua_table(TableA)
    /\ items[3] = parse_lua_table(TableA)

(***************************************************************************)
(* C3                                                                      *)
(***************************************************************************)
\* C3: a call site of n closed tables, one table whose opening brace is
\* never closed, m more closed tables, then the site's closing brace and
\* parenthesis, gives n + m + 1 output entries, a Diagnostic at position
\* n + 1 and the parsed table at every other position.
C3_UnterminatedYieldsDiagnostic ==
    pc = "done" =>
        \A n, m \in 1..MaxPieces :
            content = CallHead \o Repeat(TableA, n) \o <<"{">> \o Repeat(TableA, m)
                          \o <<"}", ")">>
            => /\ Len(items) = n + m + 1
               /\ IsDiagnostic(items[n + 1])
               /\ \A k \in (1..(n + m + 1)) \ {n + 1} : items[k] = parse_lua_table(TableA)

(***************************************************************************)
(* C4                                                                      *)
(***************************************************************************)
\* C4: every substring the splitter has emitted starts with '{', ends with
\* the '}' that matches this first brace, is balanced when the braces inside
\* quoted strings are left out, and leaves no quoted string open.
C4_EmittedTablesWellFormed ==
    \A k \in 1..Len(all_tables) : WellFormedTable(all_tables[k])

\* a table emitted after a quoted brace and a closing brace at depth 0 had
\* driven the splitter's count below 0, which is where it is again
C4_Witness ==
    /\ pc = "split"
    /\ content = StrayBraceFile
    /\ brace_count < 0
    /\ all_tables = <<TableA>>

(***************************************************************************)
(* C5                                                                      *)
(***************************************************************************)
\* C5: when the text from a call site's opening brace on has a '}' outside
\* any quoted string that brings the depth, braces inside strings not
\* counted, back to 0, the extractor's scan ends just after the first such
\* '}'.
C5_QuotedBracesIgnored ==
    pc = "split" =>
        (QuotedBlockLength(content, start) # 0
            => pos = start + QuotedBlockLength(content, start))

(***************************************************************************)
(* C6                                                                      *)
(***************************************************************************)
\* C6: when the extractor's scan stops at the end of the input with the
\* brace depth still above 0, the block's text is every character after the
\* opening brace up to and including the last character of the input.
C6_BlockRunsToEndOfInput ==
    [][(pc = "scan" /\ pc' = "split" /\ brace_count > 0)
           => table_array_content' = Slice(content, start + 1, Len(content))]_vars

(***************************************************************************)
(* C7                                                                      *)
(***************************************************************************)
\* the offset of the first character from p on that is neither whitespace nor
\* part of a "--" comment running to the end of its line; len(s) when none
RECURSIVE FirstSignificant(_, _)
FirstSignificant(s, p) ==
    IF p >= Len(s) THEN Len(s)
    ELSE IF At(s, p) \in SkipChars THEN FirstSignificant(s, p + 1)
    ELSE IF StartsWithAt(s, p, CommentMark)
    THEN FirstSignificant(s, SkipUntilIn(s, p, {"\n"}))
    ELSE p

\* an identifier, then optional whitespace, then '=' at offset p of s
IdentifierEquals(s, p) ==
    /\ p < Len(s)
    /\ At(s, p) \in KeyStartChars
    /\ LET e == SkipWhile(s, SkipWhile(s, p + 1, KeyChars), SpaceChars)
       IN  e < Len(s) /\ At(s, e) = "="

\* the text between the outer braces of table literal t
BodyOf(t) == Slice(t, 1, Len(t) - 1)

HasFirstEntry(t) == FirstSignificant(BodyOf(t), 0) < Len(BodyOf(t))

FirstEntryKeyed(t) == IdentifierEquals(BodyOf(t), FirstSignificant(BodyOf(t), 0))

\* C7: for a table literal whose first significant entry is 'identifier ='
\* the result of parse_lua_table is a map, and for one whose first
\* significant entry is anything else the result is an array.
C7_ShapeFromFirstEntry ==
    (table_out # Pending /\ WellFormedTable(table_str) /\ HasFirstEntry(table_str)) =>
        IF FirstEntryKeyed(table_str) THEN table_out.tag = "dict"
        ELSE table_out.tag = "list"

(***************************************************************************)
(* C8                                                                      *)
(***************************************************************************)
\* the end of [eE][+-]?digits from p, or p when there is no such exponent
ExponentEnd(v, p) ==
    LET q == IF p + 1 < Len(v) /\ At(v, p + 1) \in {"+", "-"} THEN p + 2 ELSE p + 1
    IN  IF p < Len(v) /\ At(v, p) \in {"e", "E"} /\ q < Len(v) /\ At(v, q) \in Digits
        THEN SkipWhile(v, q, Digits)
        ELSE p

\* optional '-', digits with at most one '.', optional exponent, and nothing
\* else
NumericShape(v) ==
    LET a == IF v # <<>> /\ v[1] = "-" THEN 1 ELSE 0
        b == SkipWhile(v, a, Digits)
        c == IF b < Len(v) /\ At(v, b) = "." THEN SkipWhile(v, b + 1, Digits) ELSE b
    IN  /\ \E i \in a..(c - 1) : At(v, i) \in Digits
        /\ ExponentEnd(v, c) = Len(v)

HasFloatMark(v) == Contains(v, ".") \/ Contains(v, "e") \/ Contains(v, "E")

IsNumber(x) == x.tag \in {"int", "float"}

\* C8: the result of parse_lua_value is a Number exactly when the trimmed
\* token has the numeric shape, floating when the token holds '.', 'e' or
\* 'E' and an integer otherwise.
C8_NumberIffNumericShape ==
    value_out # Pending =>
        /\ IsNumber(value_out) <=> NumericShape(Strip(value_str))
        /\ IsNumber(value_out) =>
               (value_out.tag = "float" <=> HasFloatMark(Strip(value_str)))

(***************************************************************************)
(* C9                                                                      *)
(***************************************************************************)
\* the literals of at most n pieces
Literals(n) == TextsOf({Igniter, <<"x">>}, n)

\* C9: for the token path .. "literal" (either quote), parse_lua_value gives
\* the known constant's value followed by the literal when the path is
\* data_util.mod_prefix, and the token's own text when the path is foo.bar,
\* which is no known constant.
C9_ConcatFallback ==
    value_out # Pending =>
        \A lit \in Literals(MaxExprPieces - 4), q \in QuoteChars :
            /\ value_str = KnownPath \o ConcatOp \o <<q>> \o lit \o <<q>>
                   => value_out = PyStr(KnownValue \o lit)
            /\ value_str = UnknownPath \o ConcatOp \o <<q>> \o lit \o <<q>>
                   => value_out = PyStr(value_str)

\* data_util.mod_prefix .. "igniter" has given "se-igniter"
C9_Witness ==
    /\ value_str = KnownPath \o ConcatOp \o <<"\"">> \o Igniter \o <<"\"">>
    /\ value_out = PyStr(<<"s", "e", "-">> \o Igniter)

(***************************************************************************)
(* C10                                                                     *)
(***************************************************************************)
\* the path a token refers to: the left side of a concatenation, or the token
ReferencedPath(v) == IF ConcatMatch(v).ok THEN ConcatMatch(v).path ELSE v

\* a token that is no literal and whose path is no known constant
Unresolved(v) ==
    /\ v \notin {TrueText, FalseText, NilText}
    /\ ~NumberOf(v).ok
    /\ ~IsQuoted(v)
    /\ ReferencedPath(v) # KnownPath

\* C10: for a token the evaluator cannot resolve, parse_lua_value returns
\* the token's text.
C10_UnresolvedKeepsText ==
    (value_out # Pending /\ Unresolved(Strip(value_str)))
        => value_out = PyStr(Strip(value_str))

(***************************************************************************)
(* C11                                                                     *)
(***************************************************************************)
\* C11: every pass of the call-site loop ends with search_pos set to the
\* position where the block's scan stopped, which is beyond the previous
\* search_pos; the next matched call site lies wholly at or after
\* search_pos, so it shares no character with an earlier block; and the
\* extraction comes to its end and hands over to the driver.
C11_SearchAdvances ==
    /\ [][(pc = "split" /\ pc' = "search")
              => (search_pos' = pos /\ search_pos' > search_pos)]_vars
    /\ [][(pc = "search" /\ pc' = "scan")
              => /\ start' - (Len(CallHead) - 1) >= search_pos
                 /\ Slice(content, start' - (Len(CallHead) - 1), start' + 1) = CallHead
                 /\ pos' = start' + 1]_vars
    /\ <>(pc \in {"parse", "done"})

\* the scan of a second call site, found after the first block
C11_Witness ==
    /\ pc = "scan"
    /\ site = 2
    /\ search_pos > Len(CallHead)
    /\ start >= search_pos

(***************************************************************************)
(* C12                                                                     *)
(***************************************************************************)
\* C12: a table with a block comment --[[ ... ]] in front of its entries,
\* on one line or over several, parses to what the table without the
\* comment parses to: the comment's text decides nothing and gives no entry.
C12_BlockCommentSkipped ==
    table_out # Pending =>
        \A body \in CommentBodies, rest \in CommentRests :
            table_str = BlockCommentTable(body, rest)
                => table_out = parse_lua_table(<<"{">> \o rest \o <<"}">>)

(***************************************************************************)
(* C13                                                                     *)
(***************************************************************************)
\* C13: for a table literal that holds nothing, or nothing but whitespace
\* and comments, parse_lua_table returns the empty array.
C13_EmptyTableIsArray ==
    (table_out # Pending /\ WellFormedTable(table_str) /\ ~HasFirstEntry(table_str))
        => table_out = PyList(<<>>)

(***************************************************************************)
(* C14                                                                     *)
(***************************************************************************)
\* C14: the table {1,["k"]=v,1} parses to an array of three entries, the
\* positional entries 1 and 1 in first and third place and between them one
\* entry that holds the key k and the parsed value of v separately.
C14_BracketKeyEntry ==
    table_out # Pending =>
        \A v \in BracketValues :
            table_str = BracketKeyTable(v)
                => /\ table_out.tag = "list"
                   /\ Len(table_out.xs) = 3
                   /\ table_out.xs[1] = PyInt(1)
                   /\ table_out.xs[3] = PyInt(1)
                   /\ table_out.xs[2] = PyDict(<<<<"k">>>>, <<parse_lua_value(v)>>)

(***************************************************************************)
(* C15                                                                     *)
(***************************************************************************)
\* the call on text t takes the map branch
ClassifiedMap(t) == ~(IsArrayShape(Unbraced(t), 0) /\ Strip(Unbraced(t)) # <<>>)

\* C15: for every input that parse_lua_table classifies as a map, the call
\* does not raise and returns a map.
C15_MapModeNeverRaises ==
    (table_out # Pending /\ ClassifiedMap(table_str)) => table_out.tag = "dict"

(***************************************************************************)
(* C16                                                                     *)
(***************************************************************************)
\* the whole of v is a dotted path, '..' and one quoted literal
WholeConcat(v) ==
    LET e1 == DottedEnd(v, 0)
        a  == SkipWhile(v, e1, SpaceChars)
        b  == SkipWhile(v, a + 2, SpaceChars)
    IN  /\ e1 # -1
        /\ Contains(Slice(v, 0, e1), ".")
        /\ StartsWithAt(v, a, <<".", ".">>)
        /\ b < Len(v) /\ At(v, b) \in QuoteChars
        /\ SkipUntilIn(v, b + 1, QuoteChars) = Len(v) - 1

\* v is no literal, so that parse_lua_value asks the evaluator about it
ReachesEvaluator(v) ==
    /\ v \notin {TrueText, FalseText, NilText}
    /\ ~NumberOf(v).ok
    /\ ~IsQuoted(v)

\* C16: for an expression that as a whole is neither path .. "literal" nor
\* a bare dotted path, the evaluator returns the expression itself, and
\* parse_lua_value returns the token's text with nothing dropped.
C16_OnlyWholeShapesResolve ==
    (/\ value_out # Pending
     /\ ReachesEvaluator(Strip(value_str))
     /\ ~WholeConcat(Strip(value_str))
     /\ ~IsVariableRef(Strip(value_str)))
        => /\ _evaluate_fallback(Strip(value_str)) = PyStr(Strip(value_str))
           /\ value_out = PyStr(Strip(value_str))

(***************************************************************************)
(* C17                                                                     *)
(***************************************************************************)
\* C17: every call that parse_lua_table makes on a nested sub-block, at any
\* depth below the call on table_str, is made on a string strictly shorter
\* than the input of the call that makes it.
C17_NestedCallsShrink ==
    table_out # Pending =>
        \A t \in CallInputs(table_str, 1) :
            \A sub \in NestedArgs(t) : Len(sub) < Len(t)

====
